---- MODULE Spec2Model ----
(***************************************************************************)
(* A model of github-linkchecker.py: the URL resolver (get_full_url), the  *)
(* link checker (check_link), the recursive repository crawler             *)
(* (crawl_files), the report writer (write_to_csv) and the orchestrator    *)
(* (main).                                                                 *)
(*                                                                         *)
(* Strings the program inspects character by character (links, URLs) are   *)
(* sequences of one-character strings.  Repository paths, which the        *)
(* program only tests with endswith, are sequences of name tokens whose    *)
(* last token is the file extension.                                       *)
(***************************************************************************)
EXTENDS Integers, Sequences, FiniteSets, TLC

VARIABLES
    \* get_full_url
    link,          \* the link handed to get_full_url
    repo,          \* the repository context (full_name, default_branch)
    full_url,      \* get_full_url(link, repo)
    twice,         \* get_full_url(full_url, repo)
    rpc,           \* position of the resolver run
    \* check_link
    retries,       \* the retry budget
    net,           \* what the transport answers on each attempt
    ckResult,      \* what check_link returned
    \* crawl_files
    crawlRepo,     \* the repository being crawled
    stack,         \* call stack of crawl_files frames, the running call last
    broken_links,  \* the accumulator shared by the call chain
    cpc,           \* position of the crawl: "idle", "run", "returned", "raised"
    sleep,         \* the rate-limit wait in progress, or NoSleep
    raw,           \* history: the status check_link gave for each record
    checked,       \* history: the link checks made, in order
    skipped,       \* history: the paths and files given up, and why
    visited,       \* history: the entries the for loops have taken up
    listed,        \* history: the paths whose listing succeeded
    rateHits,      \* history: rate-limit errors met by this crawl (saturating)
    \* main
    mpc,           \* position of main
    uncaught,      \* the exception that left main, or None
    userHits,      \* rate-limit errors met by the account lookup
    repoIdx,       \* repositories handed out by the enumeration so far
    all_links,     \* main's run-wide broken_links
    obtained,      \* history: the status check_link gave for each record
    crawled,       \* history: how the crawl of each repository ended
    csvfile,       \* the output file: NoFile or its rows
    writes         \* calls of write_to_csv made

resolveVars == <<link, repo, full_url, twice, rpc>>
checkVars == <<retries, net, ckResult>>
crawlHist == <<raw, checked, skipped, visited, listed, rateHits>>
crawlVars == <<crawlRepo, stack, broken_links, cpc, sleep, crawlHist>>
mainVars == <<mpc, uncaught, userHits, repoIdx, all_links, obtained, crawled, csvfile, writes>>
vars == <<resolveVars, checkVars, crawlVars, mainVars>>

Max(a, b) == IF a >= b THEN a ELSE b
Min(a, b) == IF a <= b THEN a ELSE b

None == "None"

(***************************************************************************)
(* Bounds of the model.                                                    *)
(***************************************************************************)
MaxLen == 3         \* longest link body drawn for get_full_url
MaxRetries == 3     \* largest retry budget drawn for check_link
MaxTime == 3        \* clock readings and reset timestamps are in 0..MaxTime
MaxRateHits == 2    \* the rate-limit history counter saturates here
MaxRepos == 3       \* most repositories the account enumeration hands out

(***************************************************************************)
(* get_full_url                                                            *)
(***************************************************************************)
HTTP == <<"h", "t", "t", "p", ":", "/", "/">>
HTTPS == <<"h", "t", "t", "p", "s", ":", "/", "/">>
GITHUB == HTTPS \o <<"g", "i", "t", "h", "u", "b", ".", "c", "o", "m", "/">>
BLOB == <<"/", "b", "l", "o", "b", "/">>

startswith(s, p) == Len(s) >= Len(p) /\ SubSeq(s, 1, Len(p)) = p

\* a mutant of lstrip: removes one leading character at most
lstrip_one(s, c) == IF s # <<>> /\ Head(s) = c THEN Tail(s) ELSE s

\* str.lstrip(c): removes every leading occurrence of c
RECURSIVE lstrip(_, _)
lstrip(s, c) == IF s # <<>> /\ Head(s) = c THEN lstrip(Tail(s), c) ELSE s

get_full_url(l, r) ==
    IF startswith(l, HTTP) \/ startswith(l, HTTPS)
    THEN l
    ELSE GITHUB \o r.full_name \o BLOB \o r.default_branch \o <<"/">> \o lstrip(l, "/")

RepoA == [full_name |-> <<"o", "/", "a">>, default_branch |-> <<"m">>]
RepoB == [full_name |-> <<"o", "/", "b">>, default_branch |-> <<"d", "/", "v">>]
RepoC == [full_name |-> <<"o", "/", "c">>, default_branch |-> <<"m">>]

LinkChars == {"/", "a", "."}
RECURSIVE SeqsUpTo(_, _)
SeqsUpTo(S, n) ==
    IF n = 0 THEN {<<>>}
    ELSE LET shorter == SeqsUpTo(S, n - 1)
         IN shorter \cup {Append(s, x) : s \in shorter, x \in S}
LinkPrefixes == {<<>>, HTTP, HTTPS, <<"h", "t", "t", "p", ":", "/">>, <<"/", "h", "t", "t", "p">>}
LinkInputs == {p \o b : p \in LinkPrefixes, b \in SeqsUpTo(LinkChars, MaxLen)}

NoUrl == <<"?">>

ResolveIdle ==
    /\ link = <<>> /\ repo = RepoA /\ full_url = NoUrl /\ twice = NoUrl /\ rpc = "idle"

ResolveInit ==
    /\ link \in LinkInputs
    /\ repo \in {RepoA, RepoB}
    /\ full_url = NoUrl
    /\ twice = NoUrl
    /\ rpc = "start"

Resolve ==
    /\ rpc = "start"
    /\ full_url' = get_full_url(link, repo)
    /\ rpc' = "resolved"
    /\ UNCHANGED <<link, repo, twice, checkVars, crawlVars, mainVars>>

ResolveAgain ==
    /\ rpc = "resolved"
    /\ twice' = get_full_url(full_url, repo)
    /\ rpc' = "again"
    /\ UNCHANGED <<link, repo, full_url, checkVars, crawlVars, mainVars>>

(***************************************************************************)
(* check_link                                                              *)
(***************************************************************************)
Exc == "RequestException"
DefaultRetries == 2
\* HTTP status codes, written as their decimal text
Codes == {"200", "204", "403", "404", "405"}

\* What the transport does on one attempt: the HEAD probe answers a status or
\* fails, and so does the GET fallback when the code issues it.
Answers == [head : Codes \cup {Exc}, get : Codes \cup {Exc}]
\* one answer per observable behaviour: GET is read only after a 403/405 HEAD
Attempts == {a \in Answers : a.head \notin {"403", "405"} => a.get = Exc}

needs_get(status) == status \in {"405", "403"}

\* a mutant of is_valid: every 2xx counts
is_valid_2xx(status) == status \in {"200", "204"}

is_valid(status) == status = "200"

\* a mutant of last_attempt: gives up on the first failure
last_attempt_first(attempt, n) == attempt = 0

last_attempt(attempt, n) == attempt = n - 1

\* the response of one attempt, or Exc when a request of it fails
response(a) ==
    IF a.head = Exc THEN Exc
    ELSE IF needs_get(a.head) THEN a.get
    ELSE a.head

\* the for loop of check_link from iteration `attempt` on; `attempts` counts
\* the iterations entered
RECURSIVE check_from(_, _, _)
check_from(answers, n, attempt) ==
    IF attempt >= n
    THEN [status |-> None, is_valid |-> FALSE, attempts |-> attempt]
    ELSE LET resp == response(answers[attempt + 1])
         IN IF resp # Exc
            THEN [status |-> resp, is_valid |-> is_valid(resp), attempts |-> attempt + 1]
            ELSE IF last_attempt(attempt, n)
                 THEN [status |-> None, is_valid |-> FALSE, attempts |-> attempt + 1]
                 ELSE check_from(answers, n, attempt + 1)

check_link(answers, n) == check_from(answers, n, 0)

NoResult == [status |-> None, is_valid |-> FALSE, attempts |-> -1]

CheckIdle == retries = 0 /\ net = <<>> /\ ckResult = NoResult

CheckInit ==
    /\ retries \in 0..MaxRetries
    /\ net = <<>>
    /\ ckResult = NoResult

\* the transport's answers for the call, one per attempt the budget allows
TransportScript ==
    /\ ckResult = NoResult
    /\ Len(net) < retries
    /\ \E a \in Attempts : net' = Append(net, a)
    /\ UNCHANGED <<retries, ckResult, resolveVars, crawlVars, mainVars>>

CallCheckLink ==
    /\ ckResult = NoResult
    /\ Len(net) = retries
    /\ ckResult' = check_link(net, retries)
    /\ UNCHANGED <<retries, net, resolveVars, crawlVars, mainVars>>

(***************************************************************************)
(* crawl_files                                                             *)
(***************************************************************************)
SafetyMargin == 5
DefaultReset == 3600

\* the repository trees: what repo.get_contents(path) lists
Root == <<>>
Docs == <<"docs">>
Dir(p) == [type |-> "dir", path |-> p]
File(p) == [type |-> "file", path |-> p]
Readme == <<"README", ".md">>
MainPy == <<"main", ".py">>
Todo == <<"TODO", ".txt">>
Guide == <<"docs", "/", "guide", ".rst">>
OldMd == <<"docs", "/", "old", ".md", ".bak">>
Notes == <<"docs", "/", "notes", ".txt">>

get_contents(r, path) ==
    CASE r = RepoA /\ path = Root -> <<File(Readme), Dir(Docs), File(MainPy), File(Todo)>>
      [] r = RepoA /\ path = Docs -> <<File(Guide), File(OldMd), File(Notes)>>
      [] r = RepoB /\ path = Root -> <<File(Readme)>>
      [] r = RepoC /\ path = Root -> <<Dir(Docs)>>
      [] r = RepoC /\ path = Docs -> <<File(OldMd), File(Notes)>>
      [] OTHER -> <<>>

\* the links of the files, as the text of a file has them, in order
RelLink == <<"/", "/", "a">>
AbsLink == HTTPS \o <<"x">>
DocLink == <<"a", ".">>
LinkOccurrences(r, path) ==
    CASE path = Readme -> <<RelLink, RelLink>>
      [] path = Guide -> <<AbsLink, DocLink, AbsLink>>
      [] path = Notes -> <<RelLink>>
      [] path = Todo -> <<AbsLink>>
      [] OTHER -> <<>>

Range(s) == {s[i] : i \in 1..Len(s)}

RECURSIVE Perms(_)
Perms(S) ==
    IF S = {} THEN {<<>>}
    ELSE UNION {{<<x>> \o q : q \in Perms(S \ {x})} : x \in S}

\* a mutant of extract_links: the occurrences as found, duplicates kept
extract_links_all(occurrences) == {occurrences}

\* list(set(inline_urls + plain_urls)): the distinct links, in any order
extract_links(occurrences) == Perms(Range(occurrences))

endswith(path, suffixes) == path # <<>> /\ path[Len(path)] \in suffixes
TextSuffixes == {".md", ".rst", ".txt"}

\* a mutant of wait_time: the margin added before the floor
wait_time_floor_last(reset_time, now) == Max(0, reset_time - now + SafetyMargin)

\* max(0, reset_time - int(time.time())) + 5
wait_time(reset_time, now) == Max(0, reset_time - now) + SafetyMargin

\* e.data.get('reset', time.time() + 3600); NoReset: the error carries none
NoReset == -1
reset_of(data, now0) == IF data = NoReset THEN now0 + DefaultReset ELSE data

\* status if status else 'Error'
status_code(status) == IF status # None /\ status # "0" THEN status ELSE "Error"

LinkRecord(r, file, l, url, status) ==
    [repo |-> r.full_name, file |-> file, link |-> l, full_url |-> url,
     status_code |-> status_code(status)]

\* if not is_valid: broken_links.append(...)
add_broken(acc, valid, rec) == IF ~valid THEN Append(acc, rec) ELSE acc

\* what the transport answers to the two attempts of a crawl's check_link
Ok200 == [head |-> "200", get |-> Exc]
NotFound == [head |-> "404", get |-> Exc]
Down == [head |-> Exc, get |-> Exc]
CrawlTransport == {<<Ok200, Down>>, <<Down, NotFound>>, <<Down, Down>>}

NewFrame(path) ==
    [path |-> path, phase |-> "list", contents |-> <<>>, idx |-> 1,
     links |-> <<>>, lidx |-> 1]

Top == stack[Len(stack)]
SetTop(f) == [stack EXCEPT ![Len(stack)] = f]
Pop(stk) == SubSeq(stk, 1, Len(stk) - 1)
Running == cpc = "run" /\ stack # <<>>
AtEntry == Running /\ Top.phase = "loop" /\ Top.idx <= Len(Top.contents)
Entry == Top.contents[Top.idx]
Eligible(e) == e.type # "dir" /\ endswith(e.path, TextSuffixes)
AfterReturn(stk) == IF stk = <<>> THEN "returned" ELSE "run"

\* a mutant of skip_path: the error ends the whole crawl
skip_path_abort(stk) == <<>>

\* a GithubException that is no rate limit is logged, and the call falls
\* through to return broken_links: the caller's loop goes on
skip_path(stk) == Pop(stk)

\* a mutant of retry_call: the rate-limited path is given up
retry_call_give_up(stk) == Pop(stk)

\* return crawl_files(repo, path, broken_links): the same path, from its
\* listing, on the same accumulator.  The handler only hands the callee's
\* return value on, so the callee takes the place of the caller's frame.
retry_call(stk) == [stk EXCEPT ![Len(stk)] = NewFrame(stk[Len(stk)].path)]

NoSleep == [reset_time |-> -1, now |-> -1, wait |-> -1]

CrawlIdle ==
    /\ crawlRepo = RepoA /\ stack = <<>> /\ broken_links = <<>> /\ cpc = "idle"
    /\ sleep = NoSleep /\ raw = <<>> /\ checked = <<>> /\ skipped = {}
    /\ visited = {} /\ listed = {} /\ rateHits = 0

\* crawl_files(repo): path '' and a fresh accumulator
CrawlCalled(r) ==
    /\ crawlRepo = r /\ stack = <<NewFrame(Root)>> /\ broken_links = <<>>
    /\ cpc = "run" /\ sleep = NoSleep /\ raw = <<>> /\ checked = <<>>
    /\ skipped = {} /\ visited = {} /\ listed = {} /\ rateHits = 0

\* repo.get_contents(path) answers with the listing
ListOk ==
    /\ Running /\ Top.phase = "list"
    /\ stack' = SetTop([Top EXCEPT !.phase = "loop",
                                   !.contents = get_contents(crawlRepo, Top.path),
                                   !.idx = 1])
    /\ listed' = listed \cup {Top.path}
    /\ UNCHANGED <<crawlRepo, broken_links, cpc, sleep, raw, checked, skipped,
                   visited, rateHits>>
    /\ UNCHANGED <<resolveVars, checkVars, mainVars>>

\* repo.get_contents(path) raises the rate-limit GithubException: the wait is
\* computed and the process sleeps
ListRateLimited ==
    /\ Running /\ Top.phase = "list"
    /\ \E data \in {NoReset} \cup 0..MaxTime, now0 \in 0..MaxTime :
        \E now \in now0..MaxTime :
            LET reset_time == reset_of(data, now0)
            IN sleep' = [reset_time |-> reset_time, now |-> now,
                         wait |-> wait_time(reset_time, now)]
    /\ stack' = SetTop([Top EXCEPT !.phase = "sleep"])
    /\ rateHits' = Min(rateHits + 1, MaxRateHits)
    /\ UNCHANGED <<crawlRepo, broken_links, cpc, raw, checked, skipped, visited,
                   listed>>
    /\ UNCHANGED <<resolveVars, checkVars, mainVars>>

\* time.sleep returns and the same path is crawled again
RetryAfterSleep ==
    /\ Running /\ Top.phase = "sleep"
    /\ stack' = retry_call(stack)
    /\ cpc' = AfterReturn(stack')
    /\ sleep' = NoSleep
    /\ UNCHANGED <<crawlRepo, broken_links, raw, checked, skipped, visited,
                   listed, rateHits>>
    /\ UNCHANGED <<resolveVars, checkVars, mainVars>>

\* repo.get_contents(path) raises another GithubException: logged, and the
\* call returns broken_links
ListError ==
    /\ Running /\ Top.phase = "list"
    /\ stack' = skip_path(stack)
    /\ cpc' = AfterReturn(stack')
    /\ skipped' = skipped \cup {[path |-> Top.path, why |-> "GithubException"]}
    /\ UNCHANGED <<crawlRepo, broken_links, sleep, raw, checked, visited, listed,
                   rateHits>>
    /\ UNCHANGED <<resolveVars, checkVars, mainVars>>

\* repo.get_contents(path) raises something that is no GithubException (the
\* connection fails): no handler of crawl_files takes it
ListCrash ==
    /\ Running /\ Top.phase = "list"
    /\ stack' = <<>>
    /\ cpc' = "raised"
    /\ UNCHANGED <<crawlRepo, broken_links, sleep, crawlHist>>
    /\ UNCHANGED <<resolveVars, checkVars, mainVars>>

\* content.type == 'dir': crawl_files(repo, content.path, broken_links)
EnterDir ==
    /\ AtEntry /\ Entry.type = "dir"
    /\ stack' = Append(SetTop([Top EXCEPT !.idx = @ + 1]), NewFrame(Entry.path))
    /\ visited' = visited \cup {Entry.path}
    /\ UNCHANGED <<crawlRepo, broken_links, cpc, sleep, raw, checked, skipped,
                   listed, rateHits>>
    /\ UNCHANGED <<resolveVars, checkVars, mainVars>>

\* neither a directory nor a .md, .rst or .txt file
SkipEntry ==
    /\ AtEntry /\ Entry.type # "dir" /\ ~Eligible(Entry)
    /\ stack' = SetTop([Top EXCEPT !.idx = @ + 1])
    /\ visited' = visited \cup {Entry.path}
    /\ UNCHANGED <<crawlRepo, broken_links, cpc, sleep, raw, checked, skipped,
                   listed, rateHits>>
    /\ UNCHANGED <<resolveVars, checkVars, mainVars>>

\* the file decodes and extract_links gives its links
OpenFile ==
    /\ AtEntry /\ Eligible(Entry)
    /\ \E ls \in extract_links(LinkOccurrences(crawlRepo, Entry.path)) :
        stack' = SetTop([Top EXCEPT !.phase = "file", !.links = ls, !.lidx = 1])
    /\ visited' = visited \cup {Entry.path}
    /\ UNCHANGED <<crawlRepo, broken_links, cpc, sleep, raw, checked, skipped,
                   listed, rateHits>>
    /\ UNCHANGED <<resolveVars, checkVars, mainVars>>

\* get_full_url, check_link and the append for one link of the file
CheckLink ==
    /\ Running /\ Top.phase = "file" /\ Top.lidx <= Len(Top.links)
    /\ \E answers \in CrawlTransport :
        LET l == Top.links[Top.lidx]
            url == get_full_url(l, crawlRepo)
            res == check_link(answers, DefaultRetries)
            rec == LinkRecord(crawlRepo, Entry.path, l, url, res.status)
        IN /\ broken_links' = add_broken(broken_links, res.is_valid, rec)
           /\ raw' = IF Len(broken_links') > Len(broken_links)
                     THEN Append(raw, res.status) ELSE raw
           /\ checked' = Append(checked, [file |-> Entry.path, link |-> l,
                                          full_url |-> url, status |-> res.status,
                                          is_valid |-> res.is_valid])
    /\ stack' = SetTop([Top EXCEPT !.lidx = @ + 1])
    /\ UNCHANGED <<crawlRepo, cpc, sleep, skipped, visited, listed, rateHits>>
    /\ UNCHANGED <<resolveVars, checkVars, mainVars>>

\* the links of the file are done: on to the next entry
EndFile ==
    /\ Running /\ Top.phase = "file" /\ Top.lidx > Len(Top.links)
    /\ stack' = SetTop([Top EXCEPT !.phase = "loop", !.idx = @ + 1,
                                   !.links = <<>>, !.lidx = 1])
    /\ UNCHANGED <<crawlRepo, broken_links, cpc, sleep, crawlHist>>
    /\ UNCHANGED <<resolveVars, checkVars, mainVars>>

\* the decoding of the file, or the processing of one of its links, raises:
\* except Exception logs it, and the loop goes on to the next entry
FileError ==
    /\ \/ AtEntry /\ Eligible(Entry)
       \/ Running /\ Top.phase = "file" /\ Top.lidx <= Len(Top.links)
    /\ stack' = SetTop([Top EXCEPT !.phase = "loop", !.idx = @ + 1,
                                   !.links = <<>>, !.lidx = 1])
    /\ visited' = visited \cup {Entry.path}
    /\ skipped' = skipped \cup {[path |-> Entry.path, why |-> "Exception"]}
    /\ UNCHANGED <<crawlRepo, broken_links, cpc, sleep, raw, checked, listed,
                   rateHits>>
    /\ UNCHANGED <<resolveVars, checkVars, mainVars>>

\* the for loop is over: return broken_links
Return ==
    /\ Running /\ Top.phase = "loop" /\ Top.idx > Len(Top.contents)
    /\ stack' = Pop(stack)
    /\ cpc' = AfterReturn(stack')
    /\ UNCHANGED <<crawlRepo, broken_links, sleep, crawlHist>>
    /\ UNCHANGED <<resolveVars, checkVars, mainVars>>

ListAnswered == ListOk \/ ListError \/ ListCrash

CrawlStep ==
    \/ ListOk \/ ListRateLimited \/ RetryAfterSleep \/ ListError \/ ListCrash
    \/ EnterDir \/ SkipEntry \/ OpenFile \/ CheckLink \/ EndFile \/ FileError
    \/ Return

(***************************************************************************)
(* write_to_csv                                                            *)
(***************************************************************************)
Header == <<"Repository", "File", "Link", "Full URL", "Status Code">>
Row(rec) == <<rec.repo, rec.file, rec.link, rec.full_url, rec.status_code>>
NoFile == [exists |-> FALSE, lines |-> <<>>]

\* a mutant of write_to_csv: the file is written for an empty sequence too
write_to_csv_always(file, records) ==
    [exists |-> TRUE,
     lines |-> <<Header>> \o [i \in 1..Len(records) |-> Row(records[i])]]

\* the output file after write_to_csv(broken_links, output_file); the cells
\* of a row are the record's fields as text
write_to_csv(file, records) ==
    IF records = <<>>
    THEN file
    ELSE [exists |-> TRUE,
          lines |-> <<Header>> \o [i \in 1..Len(records) |-> Row(records[i])]]

(***************************************************************************)
(* main                                                                    *)
(***************************************************************************)
\* the repositories user.get_repos() hands out, in order
RepoOf(i) == IF i % 2 = 1 THEN RepoB ELSE RepoC

\* the exception that leaves main, and the call that raised it
NoExc == [at |-> "", exc |-> ""]
RateLimit == "rate limit exceeded"

MainIdle ==
    /\ mpc = "idle" /\ uncaught = NoExc /\ userHits = 0 /\ repoIdx = 0
    /\ all_links = <<>> /\ obtained = <<>> /\ crawled = <<>>
    /\ csvfile = NoFile /\ writes = 0

MainInit ==
    /\ mpc = "get_user" /\ uncaught = NoExc /\ userHits = 0 /\ repoIdx = 0
    /\ all_links = <<>> /\ obtained = <<>> /\ crawled = <<>>
    /\ csvfile = NoFile /\ writes = 0

\* g.get_user(username) answers
GetUserOk ==
    /\ mpc = "get_user"
    /\ mpc' = "get_repos"
    /\ UNCHANGED <<uncaught, userHits, repoIdx, all_links, obtained, crawled,
                   csvfile, writes>>
    /\ UNCHANGED <<resolveVars, checkVars, crawlVars>>

\* g.get_user raises the rate-limit GithubException: the wait is computed and
\* the process sleeps
GetUserRateLimited ==
    /\ mpc = "get_user"
    /\ \E data \in {NoReset} \cup 0..MaxTime, now0 \in 0..MaxTime :
        \E now \in now0..MaxTime :
            LET reset_time == reset_of(data, now0)
            IN sleep' = [reset_time |-> reset_time, now |-> now,
                         wait |-> wait_time(reset_time, now)]
    /\ mpc' = "user_sleep"
    /\ userHits' = userHits + 1
    /\ UNCHANGED <<uncaught, repoIdx, all_links, obtained, crawled, csvfile, writes>>
    /\ UNCHANGED <<resolveVars, checkVars, crawlRepo, stack, broken_links, cpc,
                   crawlHist>>

\* g.get_user raises another GithubException: logged, and main returns
GetUserError ==
    /\ mpc = "get_user"
    /\ mpc' = "returned"
    /\ UNCHANGED <<uncaught, userHits, repoIdx, all_links, obtained, crawled,
                   csvfile, writes>>
    /\ UNCHANGED <<resolveVars, checkVars, crawlVars>>

\* the retry of g.get_user, made in the except block, answers
RetryGetUserOk ==
    /\ mpc = "user_sleep"
    /\ sleep' = NoSleep
    /\ mpc' = "get_repos"
    /\ UNCHANGED <<uncaught, userHits, repoIdx, all_links, obtained, crawled,
                   csvfile, writes>>
    /\ UNCHANGED <<resolveVars, checkVars, crawlRepo, stack, broken_links, cpc,
                   crawlHist>>

\* the retry of g.get_user raises: no handler encloses it, and it leaves main
RetryGetUserRaises ==
    /\ mpc = "user_sleep"
    /\ \E e \in {RateLimit, "GithubException"} :
        /\ uncaught' = [at |-> "get_user", exc |-> e]
        /\ userHits' = IF e = RateLimit THEN userHits + 1 ELSE userHits
    /\ sleep' = NoSleep
    /\ mpc' = "raised"
    /\ UNCHANGED <<repoIdx, all_links, obtained, crawled, csvfile, writes>>
    /\ UNCHANGED <<resolveVars, checkVars, crawlRepo, stack, broken_links, cpc,
                   crawlHist>>

\* the iteration of user.get_repos() hands out the next repository, and the
\* body of the loop calls crawl_files(repo)
NextRepo ==
    /\ mpc = "get_repos"
    /\ repoIdx < MaxRepos
    /\ repoIdx' = repoIdx + 1
    /\ mpc' = "crawl"
    /\ crawlRepo' = RepoOf(repoIdx + 1)
    /\ stack' = <<NewFrame(Root)>>
    /\ broken_links' = <<>>
    /\ cpc' = "run"
    /\ raw' = <<>> /\ checked' = <<>> /\ skipped' = {} /\ visited' = {}
    /\ listed' = {} /\ rateHits' = 0
    /\ UNCHANGED <<uncaught, userHits, all_links, obtained, crawled, csvfile,
                   writes, sleep>>
    /\ UNCHANGED <<resolveVars, checkVars>>

\* stepping the iteration of user.get_repos() raises (a page of the listing
\* cannot be fetched): the for statement is in no try block
EnumRaises ==
    /\ mpc = "get_repos"
    /\ uncaught' = [at |-> "get_repos", exc |-> "GithubException"]
    /\ mpc' = "raised"
    /\ UNCHANGED <<userHits, repoIdx, all_links, obtained, crawled, csvfile, writes>>
    /\ UNCHANGED <<resolveVars, checkVars, crawlVars>>

\* broken_links.extend(crawl_files(repo))
CrawlReturned ==
    /\ mpc = "crawl" /\ cpc = "returned"
    /\ all_links' = all_links \o broken_links
    /\ obtained' = obtained \o raw
    /\ crawled' = Append(crawled, "returned")
    /\ mpc' = "get_repos"
    /\ cpc' = "idle"
    /\ broken_links' = <<>>
    /\ raw' = <<>> /\ checked' = <<>> /\ skipped' = {} /\ visited' = {}
    /\ listed' = {} /\ rateHits' = 0
    /\ UNCHANGED <<uncaught, userHits, repoIdx, csvfile, writes, crawlRepo, stack,
                   sleep>>
    /\ UNCHANGED <<resolveVars, checkVars>>

\* crawl_files(repo) raises: except Exception logs it, nothing is merged
CrawlRaised ==
    /\ mpc = "crawl" /\ cpc = "raised"
    /\ crawled' = Append(crawled, "raised")
    /\ mpc' = "get_repos"
    /\ cpc' = "idle"
    /\ broken_links' = <<>>
    /\ raw' = <<>> /\ checked' = <<>> /\ skipped' = {} /\ visited' = {}
    /\ listed' = {} /\ rateHits' = 0
    /\ UNCHANGED <<uncaught, userHits, repoIdx, all_links, obtained, csvfile,
                   writes, crawlRepo, stack, sleep>>
    /\ UNCHANGED <<resolveVars, checkVars>>

\* the iteration is exhausted: write_to_csv(broken_links, output_file)
WriteReport ==
    /\ mpc = "get_repos"
    /\ csvfile' = write_to_csv(csvfile, all_links)
    /\ writes' = writes + 1
    /\ mpc' = "returned"
    /\ UNCHANGED <<uncaught, userHits, repoIdx, all_links, obtained, crawled>>
    /\ UNCHANGED <<resolveVars, checkVars, crawlVars>>

MainStep ==
    \/ GetUserOk \/ GetUserRateLimited \/ GetUserError
    \/ RetryGetUserOk \/ RetryGetUserRaises
    \/ NextRepo \/ EnumRaises \/ CrawlReturned \/ CrawlRaised \/ WriteReport

(***************************************************************************)
(* Specifications                                                          *)
(***************************************************************************)
\* get_full_url on a drawn link, then on its own result
InitResolve == ResolveInit /\ CheckIdle /\ CrawlIdle /\ MainIdle
NextResolve == Resolve \/ ResolveAgain
SpecResolve == InitResolve /\ [][NextResolve]_vars

\* check_link on a drawn retry budget and drawn transport answers
InitCheck == ResolveIdle /\ CheckInit /\ CrawlIdle /\ MainIdle
NextCheck == TransportScript \/ CallCheckLink
SpecCheck == InitCheck /\ [][NextCheck]_vars

\* crawl_files(repo) on the repository RepoA
InitCrawl == ResolveIdle /\ CheckIdle /\ CrawlCalled(RepoA) /\ MainIdle
SpecCrawl == InitCrawl /\ [][CrawlStep]_vars

\* the same, the program running on and every listing being answered without
\* a rate-limit error sooner or later
SpecCrawlFair == SpecCrawl /\ WF_vars(CrawlStep) /\ SF_vars(ListAnswered)

\* the whole program: main, and crawl_files for each repository
Init == ResolveIdle /\ CheckIdle /\ CrawlIdle /\ MainInit
Next == MainStep \/ CrawlStep
Spec == Init /\ [][Next]_vars

(***************************************************************************)
(* Properties                                                              *)
(***************************************************************************)
\* an attempt whose HEAD probe, or whose GET fallback, fails in the transport
Failed(a) == a.head = Exc \/ (a.head \in {"403", "405"} /\ a.get = Exc)
\* the status of the last response of an attempt that did not fail
FinalStatus(a) == IF a.head \in {"403", "405"} THEN a.get ELSE a.head
Returned == ckResult # NoResult

\* C1: when every attempt ends in a transport failure, check_link with a
\* budget n >= 1 makes exactly n attempts and returns (None, False).
C1_ExhaustedBudget ==
    (Returned /\ retries >= 1 /\ \A i \in 1..Len(net) : Failed(net[i]))
        => /\ ckResult.attempts = retries
           /\ ckResult.status = None
           /\ ckResult.is_valid = FALSE

C1_Witness ==
    /\ Returned /\ retries = 3 /\ ckResult.attempts = 3
    /\ \A i \in 1..3 : Failed(net[i])
    /\ net[1].head = Exc /\ net[2].head = "403" /\ net[3].head = "405"

\* C2: the first attempt that does not fail decides the result: its final
\* response's status is returned, valid exactly when that status is 200.
C2_StatusOfFinalResponse ==
    Returned =>
        \A k \in 1..Len(net) :
            (~Failed(net[k]) /\ \A i \in 1..(k - 1) : Failed(net[i]))
                => /\ ckResult.status = FinalStatus(net[k])
                   /\ ckResult.is_valid = (FinalStatus(net[k]) = "200")
                   /\ ckResult.attempts = k

C2_Witness ==
    /\ Returned /\ retries = 2
    /\ Failed(net[1]) /\ net[2] = [head |-> "405", get |-> "204"]
    /\ ckResult.status = "204" /\ ckResult.is_valid = FALSE

\* the blob URL of a path of the repository
BlobUrl(r, path) == GITHUB \o r.full_name \o BLOB \o r.default_branch \o <<"/">> \o path
Absolute(l) == startswith(l, HTTP) \/ startswith(l, HTTPS)
Resolved == rpc \in {"resolved", "again"}

\* C6 as stated: a relative link loses one leading slash at most.
C6_SingleSlash ==
    Resolved =>
        /\ Absolute(link) => full_url = link
        /\ ~Absolute(link) =>
            full_url = BlobUrl(repo, IF link # <<>> /\ link[1] = "/"
                                     THEN SubSeq(link, 2, Len(link)) ELSE link)
        /\ (rpc = "again" /\ Absolute(link)) => twice = full_url

\* C6, amended: a relative link loses every leading slash; the rest is the
\* path of the blob URL, verbatim.  An absolute link is returned unchanged,
\* and resolving it again changes nothing.
C6_EverySlash ==
    Resolved =>
        /\ Absolute(link) => full_url = link
        /\ ~Absolute(link) =>
            \E k \in 0..Len(link) :
                /\ \A i \in 1..k : link[i] = "/"
                /\ k < Len(link) => link[k + 1] # "/"
                /\ full_url = BlobUrl(repo, SubSeq(link, k + 1, Len(link)))
        /\ (rpc = "again" /\ Absolute(link)) => twice = full_url

C6_Witness ==
    /\ rpc = "again" /\ link = <<"/", "/", "a">> /\ repo = RepoB
    /\ full_url = GITHUB \o <<"o", "/", "b", "/", "b", "l", "o", "b", "/",
                              "d", "/", "v", "/", "a">>

Sleeping == sleep # NoSleep

\* C8 as stated: wait = max(0, reset - now + 5).
C8_FloorAfterMargin ==
    Sleeping => sleep.wait = Max(0, sleep.reset_time - sleep.now + 5)

\* C8, amended: the floor at zero applies to reset - now alone and the 5
\* seconds are added after it: wait = max(0, reset - now) + 5, never under 5.
C8_MarginAfterFloor ==
    Sleeping =>
        /\ sleep.reset_time > sleep.now => sleep.wait = sleep.reset_time - sleep.now + 5
        /\ sleep.reset_time <= sleep.now => sleep.wait = 5

C8_Witness ==
    /\ Running /\ Top.phase = "sleep"
    /\ sleep.reset_time = 0 /\ sleep.now = 2 /\ sleep.wait = 5

IsPrefix(a, b) == Len(a) <= Len(b) /\ SubSeq(b, 1, Len(a)) = a
EntryPaths(d) == {get_contents(crawlRepo, d)[i].path : i \in 1..Len(get_contents(crawlRepo, d))}
FilesChecked == {checked[i].file : i \in 1..Len(checked)}
LinksChecked(f) == {checked[i].link : i \in {j \in 1..Len(checked) : checked[j].file = f}}
GivenUp(why) == {s.path : s \in {x \in skipped : x.why = why}}
\* a step in which crawl_files catches and logs an error
ErrorCaught == skipped' # skipped

\* C7: an upstream error for a path that is no rate limit, and an error in a
\* file, are caught: the crawl is not aborted, the records appended so far
\* stay, the failing path is not recursed into, the failing file's other
\* links are not checked, and every other entry of every listed directory is
\* still taken up.
C7_ErrorsSkipOnlyTheirPath ==
    /\ [][ErrorCaught => /\ cpc' # "raised"
                         /\ broken_links' = broken_links
                         /\ (stack' # <<>> \/ cpc' = "returned")]_vars
    /\ [][IsPrefix(broken_links, broken_links')]_vars
    /\ [](cpc = "returned" =>
            /\ \A d \in listed : EntryPaths(d) \subseteq visited
            /\ \A d \in GivenUp("GithubException") :
                    d \notin listed /\ EntryPaths(d) \cap visited = {}
            /\ \A f \in GivenUp("Exception") :
                    LinksChecked(f) # Range(LinkOccurrences(crawlRepo, f))
            /\ \A f \in visited \ GivenUp("Exception") :
                    endswith(f, TextSuffixes)
                        => LinksChecked(f) = Range(LinkOccurrences(crawlRepo, f)))

C7_Witness ==
    /\ cpc = "returned"
    /\ Docs \in GivenUp("GithubException")
    /\ Readme \in GivenUp("Exception")
    /\ Todo \in FilesChecked /\ Todo \notin GivenUp("Exception")
    /\ Len(broken_links) = 1 /\ broken_links[1].file = Todo

\* the directories the crawl has come to
DirsReached == {Root} \cup {p \in visited : \E d \in listed :
                    \E i \in 1..Len(get_contents(crawlRepo, d)) :
                        get_contents(crawlRepo, d)[i] = Dir(p)}
\* every directory the crawl came to was listed, unless its listing raised an
\* error that is no rate limit
NoPathGivenUp ==
    cpc = "returned" =>
        \A d \in DirsReached : d \in listed \/ d \in GivenUp("GithubException")
\* the step that ends a rate-limit wait calls crawl_files on the same path
\* with the same accumulator
RetriesSamePath ==
    (Running /\ Top.phase = "sleep" /\ sleep' = NoSleep)
        => /\ Len(stack') = Len(stack)
           /\ stack'[Len(stack')] = NewFrame(Top.path)
           /\ broken_links' = broken_links
           /\ cpc' = "run"
Done == cpc \in {"returned", "raised"}

InvalidChecks == SelectSeq(checked, LAMBDA c : ~c.is_valid)

\* C10: whatever rate-limit waits the listings went through, the
\* accumulator holds one record for each check that found its link invalid,
\* in the order of the checks, and none for a valid one; no (file, link) pair
\* is checked twice, and a file the crawl went through has each of its
\* distinct links checked once.
C10_OneRecordPerInvalidLink ==
    /\ Len(broken_links) = Len(InvalidChecks)
    /\ \A i \in 1..Len(InvalidChecks) :
        /\ broken_links[i].repo = crawlRepo.full_name
        /\ broken_links[i].file = InvalidChecks[i].file
        /\ broken_links[i].link = InvalidChecks[i].link
        /\ broken_links[i].full_url = InvalidChecks[i].full_url
    /\ \A i, j \in 1..Len(checked) :
        (checked[i].file = checked[j].file /\ checked[i].link = checked[j].link)
            => i = j
    /\ cpc = "returned" =>
        \A f \in FilesChecked \ GivenUp("Exception") :
            LinksChecked(f) = Range(LinkOccurrences(crawlRepo, f))

C10_Witness ==
    /\ cpc = "returned" /\ rateHits >= 2 /\ skipped = {}
    /\ Len(checked) = 5 /\ Len(broken_links) = 3
    /\ \E i \in 1..5 : checked[i].is_valid /\ checked[i].file = Guide

MainOver == mpc \in {"returned", "raised"}
AccountResolved == repoIdx > 0 \/ writes > 0 \/ uncaught.at = "get_repos"

\* C3: a failure raised while the repositories are enumerated or while one
\* is crawled is caught: it never leaves main, and once the account is
\* resolved main ends with the one call of write_to_csv.
C3_RepositoryFailuresCaught ==
    /\ uncaught.at # "get_repos"
    /\ (MainOver /\ AccountResolved) => writes = 1

\* C4 as stated: a rate-limit error never ends the run, at the account
\* lookup no more than at a directory listing.
C4_RateLimitNeverEndsRun ==
    /\ uncaught.exc # RateLimit
    /\ NoPathGivenUp

\* C4, amended: a rate-limit error at a directory listing is always waited
\* out and the path retried; at the account lookup it is waited out once:
\* the first one makes main sleep and call get_user again, and a second one
\* in a row leaves main before any repository is processed or any report
\* written.
C4_AccountLookupRetriedOnce ==
    /\ NoPathGivenUp
    /\ (Running /\ Top.phase = "sleep") => Sleeping
    /\ mpc = "user_sleep" => (userHits = 1 /\ Sleeping)
    /\ (userHits = 1 /\ mpc # "user_sleep") => uncaught.exc # RateLimit
    /\ uncaught.exc = RateLimit =>
        /\ uncaught.at = "get_user" /\ userHits = 2 /\ mpc = "raised"
        /\ repoIdx = 0 /\ crawled = <<>> /\ writes = 0 /\ ~csvfile.exists
    /\ userHits <= 2

C4_Witness ==
    /\ mpc = "raised" /\ uncaught = [at |-> "get_user", exc |-> RateLimit]
    /\ userHits = 2 /\ writes = 0

\* C5: write_to_csv creates no file for an empty sequence; otherwise the
\* file is the header row followed by one row per record, in the order of
\* the records, each row the record's fields, its Status Code 'Error'
\* exactly when check_link gave no status for the record.
C5_ReportRows ==
    writes >= 1 =>
        /\ all_links = <<>> => csvfile = NoFile
        /\ all_links # <<>> =>
            /\ csvfile.exists
            /\ Len(csvfile.lines) = 1 + Len(all_links)
            /\ csvfile.lines[1] = <<"Repository", "File", "Link", "Full URL", "Status Code">>
            /\ Len(obtained) = Len(all_links)
            /\ \A i \in 1..Len(all_links) :
                /\ csvfile.lines[i + 1] =
                       <<all_links[i].repo, all_links[i].file, all_links[i].link,
                         all_links[i].full_url, all_links[i].status_code>>
                /\ (csvfile.lines[i + 1][5] = "Error") = (obtained[i] = None)
                /\ (obtained[i] # None) => csvfile.lines[i + 1][5] = obtained[i]

C5_Witness ==
    /\ writes = 1 /\ Len(all_links) = 2
    /\ obtained = <<None, "404">>
    /\ csvfile.lines[2][5] = "Error" /\ csvfile.lines[3][5] = "404"
    /\ csvfile.lines[2][1] = RepoB.full_name /\ csvfile.lines[3][1] = RepoC.full_name

====
